---- MODULE Spec2Model ----
(***************************************************************************)
(* A model of the archive codec of butility: File.zip (the hand-assembled  *)
(* ZIP writer) and File.unzip (the JSZip-based reader), src/butility.js    *)
(* lines 3285-3517.                                                        *)
(*                                                                         *)
(* Strings are sequences of UTF-16 code units, byte arrays are sequences   *)
(* of 0..255.  Offsets into byte arrays are 0-based, as in the source and  *)
(* in the ZIP format description; Seq indices are 1-based.                 *)
(***************************************************************************)
EXTENDS Integers, Sequences, FiniteSets, TLC

(***************************************************************************)
(* Bounds of the model.                                                    *)
(***************************************************************************)
\* at most this many entries are passed to File.zip
MaxFiles == 2
\* contents are strings of at most this many characters (each one or two
\* bytes in UTF-8)
MaxContentLen == 1
\* a page that declares a global `offset` gives it a value 0 .. MaxGlobalOffset
MaxGlobalOffset == 0

(***************************************************************************)
(* Generic helpers over sequences and bytes.                               *)
(***************************************************************************)
RECURSIVE FlattenBackwards(_)
\* the arrays written from the last one to the first
FlattenBackwards(arrays) ==
  IF arrays = <<>> THEN <<>> ELSE FlattenBackwards(Tail(arrays)) \o Head(arrays)

RECURSIVE Flatten(_)
\* the concatenation of a sequence of byte arrays
Flatten(arrays) ==
  IF arrays = <<>> THEN <<>> ELSE Head(arrays) \o Flatten(Tail(arrays))

RECURSIVE SumLen(_)
\* arrays.reduce((acc, entry) => acc + entry.length, 0)
SumLen(arrays) ==
  IF arrays = <<>> THEN 0 ELSE Len(Head(arrays)) + SumLen(Tail(arrays))

\* n zero bytes
Zeros(n) == [i \in 1..n |-> 0]

\* bytes off .. off+n-1 (0-based) of buf
Slice(buf, off, n) == SubSeq(buf, off + 1, off + n)

\* the unsigned 16-bit little-endian integer at 0-based offset off
LE16(buf, off) == buf[off + 1] + 256 * buf[off + 2]

\* the unsigned 32-bit little-endian integer at 0-based offset off
\* (the model's buffers keep the top byte below 128)
LE32(buf, off) ==
  buf[off + 1] + 256 * buf[off + 2] + 65536 * buf[off + 3] + 16777216 * buf[off + 4]

\* storing a non-negative integer into a Uint8Array element keeps it modulo 2^8
ToUint8(v) == v % 256

\* v >> 8 & 255 for a non-negative 32-bit integer
ShiftRight8And255(v) == (v \div 256) % 256

(***************************************************************************)
(* TextEncoder.encode: UTF-8 of a string of code units below 0x800.        *)
(***************************************************************************)
EncodeUnit(c) ==
  IF c < 128 THEN <<c>> ELSE <<192 + (c \div 64), 128 + (c % 64)>>

RECURSIVE TextEncode(_)
\* the encodings of the code units, concatenated (by halves, which keeps the
\* evaluation shallow on long strings)
TextEncode(str) ==
  IF Len(str) = 0 THEN <<>>
  ELSE IF Len(str) = 1 THEN EncodeUnit(str[1])
  ELSE LET h == Len(str) \div 2
       IN TextEncode(SubSeq(str, 1, h)) \o TextEncode(SubSeq(str, h + 1, Len(str)))

(***************************************************************************)
(* The inputs: the entry lists handed to File.zip, and the binding of the  *)
(* free identifier `offset` in the page that loads the library.            *)
(***************************************************************************)
\* code units used in names: "a", "b" and "e-acute" (two bytes in UTF-8)
NameUnits == {97, 98, 233}

\* code units used in contents
ContentUnits == {97, 233}

\* a name of n characters "a"
LongName(n) == [i \in 1..n |-> 97]

\* the empty name, the one-character names, and a name of 256 characters,
\* the shortest whose length does not fit in one byte
Names == {<<>>} \cup {<<c>> : c \in NameUnits} \cup {LongName(256)}

\* the strings of at most MaxContentLen characters, all the same
Contents == {[i \in 1..n |-> c] : n \in 0..MaxContentLen, c \in ContentUnits}

\* an element of the `files` argument: { name: string, content: string }
FileEntries == [name : Names, content : Contents]

\* the entry { name: "hello.txt", content: "Hi there" }
HelloEntry ==
  [name |-> <<104, 101, 108, 108, 111, 46, 116, 120, 116>>,
   content |-> <<72, 105, 32, 116, 104, 101, 114, 101>>]

\* an entry whose central record (48 bytes and the name, lines 3391-3462) is
\* 32768 bytes long: two of them make a central directory of 65536 bytes,
\* the smallest whose size does not fit in two bytes; the name, of the
\* character c, is shorter than 65535 bytes
WideEntry(c) == [name |-> [i \in 1..(32768 - 48) |-> c], content |-> <<>>]

\* the `files` argument: Array<{ name, content }>
FileLists ==
  UNION {[1..n -> FileEntries] : n \in 0..MaxFiles}
    \cup {<<HelloEntry>>, <<WideEntry(97), WideEntry(98)>>}

\* File.zip reads `offset`, which no scope of the library declares: the
\* identifier resolves against the global object of the page, where it is
\* either not declared or bound to a number by the page.
GlobalOffsets ==
  {[declared |-> FALSE, value |-> 0]}
    \cup {[declared |-> TRUE, value |-> v] : v \in 0..MaxGlobalOffset}

VARIABLES
  files,                  \* the entries File.zip is called with
  globalOffset,           \* the page's binding of the identifier `offset`
  pc,                     \* the position of File.zip
  thrown,                 \* the exception File.zip threw, "none" if none
  zipData,                \* File.zip's locals, <<>> until assigned
  centralDirectory,
  currentOffset,
  zipArray,
  centralDirectoryArray,
  endOfCentralDirectory,
  zipFile,
  zipBlob,                \* the bytes of the Blob File.zip returned
  linkClicks,             \* the number of download links File.zip clicked
  unzipPc,                \* the position of File.unzip and of its callbacks
  blob,                   \* the bytes of the Blob File.unzip is called with
  blobSource,             \* who wrote them: "zip" (File.zip), "writer", "badSize"
                          \* or the way they are malformed
  tamperedAt,             \* the 0-based offset of the byte changed, -1 if none
  promise,                \* the state of the promise File.unzip returned
  rejectReason,           \* the Error it rejected with
  loadAsyncResult,        \* what the promise of zip.loadAsync settles with
  loadedFiles,            \* zip.files once loadAsync has fulfilled
  extractedFiles,         \* File.unzip's array of { name, content }
  pendingEntries,         \* the entries whose async("string") is in flight
  lengthAtResolve         \* extractedFiles.length when resolve(...) ran

VARIABLES
  previousCall,           \* the outcome of the File.zip invocation before the
                          \* current one, <<>> if there was none
  localStorage,           \* window.localStorage: <<key, item>> pairs in key(i) order
  now,                    \* Date.now()
  stored,                 \* per key, the last setLocal of it, <<>> if none
  lastCall,               \* the last BrowserStorage call that completed
  batchPc,                \* the position of batchProcessLocalStorage
  batchIndex,             \* its loop variable i
  batchKeys,              \* the keys in local storage when it was called
  batchCalls              \* the <<key, value>> pairs callback was invoked with

zipVars ==
  <<files, globalOffset, pc, thrown, zipData, centralDirectory, currentOffset,
    zipArray, centralDirectoryArray, endOfCentralDirectory, zipFile, zipBlob,
    linkClicks>>

unzipVars ==
  <<unzipPc, blob, blobSource, tamperedAt, promise, rejectReason,
    loadAsyncResult, loadedFiles, extractedFiles, pendingEntries,
    lengthAtResolve>>

callVars == <<previousCall>>

storageVars ==
  <<localStorage, now, stored, lastCall, batchPc, batchIndex, batchKeys,
    batchCalls>>

\* what the archive codec leaves alone
otherVars == <<callVars, storageVars>>

vars == <<zipVars, unzipVars, callVars, storageVars>>

(***************************************************************************)
(* File.zip, lines 3314-3517.                                              *)
(***************************************************************************)
\* the content taken unit by unit, as new Uint8Array(file.content) would
ZipDataOfCharCodes(file) ==
  [name |-> file.name,
   content |-> [i \in 1..Len(file.content) |-> ToUint8(file.content[i])],
   contentLength |-> Len(file.content)]

\* lines 3316-3323: one zipData element per file
ZipDataOf(file) ==
  [name |-> file.name,
   content |-> TextEncode(file.content),
   contentLength |-> Len(TextEncode(file.content))]

RECURSIVE SumContentLength(_)
\* the value of currentOffset after the loop of lines 3326-3333 over data
SumContentLength(data) ==
  IF data = <<>> THEN 0
  ELSE Head(data).contentLength + SumContentLength(Tail(data))

\* lines 3327-3331: the centralDirectory element of the i-th file
CentralDirectoryOf(data, i) ==
  [name |-> data[i].name,
   offset |-> SumContentLength(SubSeq(data, 1, i - 1)),
   contentLength |-> data[i].contentLength]

\* lines 3336-3379: the fixed part of a local file header
LocalHeader(file) ==
  <<80, 75, 3, 4>>           \* local file header signature
    \o <<10, 0>>             \* version needed to extract
    \o <<0, 0>>              \* general purpose bit flag
    \o <<0, 0>>              \* compression method
    \o <<0, 0, 0, 0>>        \* file modification time
    \o <<0, 0, 0, 0>>        \* file modification date
    \o <<0, 0, 0, 0>>        \* CRC-32
    \o <<0, 0, 0, 0>>        \* compressed size
    \o <<0, 0, 0, 0>>        \* uncompressed size
    \o <<ToUint8(Len(file.name)), 0>>   \* file name length

\* lines 3380-3382 and 3459-3461: TypedArray.set(source, at) throws a
\* RangeError when the source does not fit; the array was sized with
\* file.name.length, the source is the UTF-8 encoding of the name
NameFits(file) == Len(TextEncode(file.name)) <= Len(file.name)

\* lines 3380-3387: header, name bytes, content bytes
FileEntryOf(file) ==
  LocalHeader(file) \o TextEncode(file.name) \o file.content

\* file.currentOffset, lines 3454 and 3456: the elements of centralDirectory
\* have the properties name, offset and contentLength; a missing property
\* reads as undefined, which the operator & converts to 0
FileCurrentOffset(file) ==
  IF "currentOffset" \in DOMAIN file THEN file.currentOffset ELSE 0

\* lines 3391-3458: the fixed part of a central file header
CentralHeader(file) ==
  <<80, 75, 1, 2>>           \* central file header signature
    \o <<10, 0>>             \* version made by
    \o <<10, 0>>             \* version needed to extract
    \o <<0, 0>>              \* general purpose bit flag
    \o <<0, 0>>              \* compression method
    \o <<0, 0, 0, 0>>        \* file modification time
    \o <<0, 0, 0, 0>>        \* file modification date
    \o <<0, 0, 0, 0>>        \* CRC-32
    \o <<0, 0, 0, 0>>        \* compressed size
    \o <<0, 0, 0, 0>>        \* uncompressed size
    \o <<ToUint8(Len(file.name)), 0>>   \* file name length
    \o <<0, 0>>              \* extra field length
    \o <<0, 0>>              \* file comment length
    \o <<0, 0>>              \* disk number start
    \o <<0, 0>>              \* internal file attributes
    \o <<0, 0, 0, 0>>        \* external file attributes
    \o <<ToUint8(FileCurrentOffset(file)),
         ShiftRight8And255(FileCurrentOffset(file))>>  \* relative offset of local header

\* lines 3459-3462: header and name bytes
CentralRecordOf(file) == CentralHeader(file) \o TextEncode(file.name)

\* lines 3464-3499, evaluated with `offset` bound to the number off
EndOfCentralDirectoryOf(cdArray, off) ==
  <<80, 75, 5, 6>>           \* end of central directory signature
    \o <<0, 0, 0, 0>>        \* number of this disk
    \o <<0, 0, 0, 0>>        \* number of the disk with the start of the central directory
    \o <<ToUint8(Len(cdArray)), ShiftRight8And255(Len(cdArray))>>
    \o <<ToUint8(Len(cdArray)), ShiftRight8And255(Len(cdArray))>>
    \o <<ToUint8(SumLen(cdArray)), ShiftRight8And255(SumLen(cdArray))>>
    \o <<ToUint8(off), ShiftRight8And255(off)>>
    \o <<0, 0>>              \* .zip file comment length

\* the length of the longest prefix of fs whose names all fit
RECURSIVE FittingPrefix(_)
FittingPrefix(fs) ==
  IF fs = <<>> \/ ~NameFits(Head(fs)) THEN 0 ELSE 1 + FittingPrefix(Tail(fs))

\* lines 3315-3323
ZipBuildZipData ==
  /\ pc = "zipData"
  /\ UNCHANGED <<unzipVars, otherVars>>
  /\ zipData' = [i \in 1..Len(files) |-> ZipDataOf(files[i])]
  /\ pc' = "centralDirectory"
  /\ UNCHANGED <<files, globalOffset, thrown, centralDirectory, currentOffset,
                 zipArray, centralDirectoryArray, endOfCentralDirectory,
                 zipFile, zipBlob, linkClicks>>

\* lines 3324-3333
ZipBuildCentralDirectory ==
  /\ pc = "centralDirectory"
  /\ UNCHANGED <<unzipVars, otherVars>>
  /\ centralDirectory' =
       [i \in 1..Len(zipData) |-> CentralDirectoryOf(zipData, i)]
  /\ currentOffset' = SumContentLength(zipData)
  /\ pc' = "zipArray"
  /\ UNCHANGED <<files, globalOffset, thrown, zipData, zipArray,
                 centralDirectoryArray, endOfCentralDirectory, zipFile,
                 zipBlob, linkClicks>>

\* lines 3334-3388: the loop stops at the first name that does not fit
ZipBuildZipArray ==
  /\ pc = "zipArray"
  /\ UNCHANGED <<unzipVars, otherVars>>
  /\ LET k == FittingPrefix(zipData)
     IN /\ zipArray' = [i \in 1..k |-> FileEntryOf(zipData[i])]
        /\ IF k = Len(zipData)
           THEN pc' = "centralDirectoryArray" /\ thrown' = thrown
           ELSE pc' = "thrown" /\ thrown' = "RangeError"
  /\ UNCHANGED <<files, globalOffset, zipData, centralDirectory, currentOffset,
                 centralDirectoryArray, endOfCentralDirectory, zipFile,
                 zipBlob, linkClicks>>

\* lines 3389-3463
ZipBuildCentralDirectoryArray ==
  /\ pc = "centralDirectoryArray"
  /\ UNCHANGED <<unzipVars, otherVars>>
  /\ LET k == FittingPrefix(centralDirectory)
     IN /\ centralDirectoryArray' =
             [i \in 1..k |-> CentralRecordOf(centralDirectory[i])]
        /\ IF k = Len(centralDirectory)
           THEN pc' = "endOfCentralDirectory" /\ thrown' = thrown
           ELSE pc' = "thrown" /\ thrown' = "RangeError"
  /\ UNCHANGED <<files, globalOffset, zipData, centralDirectory, currentOffset,
                 zipArray, endOfCentralDirectory, zipFile, zipBlob, linkClicks>>

\* lines 3464-3499: reading the undeclared `offset` throws a ReferenceError
ZipBuildEndOfCentralDirectory ==
  /\ pc = "endOfCentralDirectory"
  /\ UNCHANGED <<unzipVars, otherVars>>
  /\ IF globalOffset.declared
     THEN /\ endOfCentralDirectory' =
               EndOfCentralDirectoryOf(centralDirectoryArray, globalOffset.value)
          /\ pc' = "zipFile"
          /\ thrown' = thrown
     ELSE /\ endOfCentralDirectory' = endOfCentralDirectory
          /\ pc' = "thrown"
          /\ thrown' = "ReferenceError"
  /\ UNCHANGED <<files, globalOffset, zipData, centralDirectory, currentOffset,
                 zipArray, centralDirectoryArray, zipFile, zipBlob, linkClicks>>

\* lines 3500-3510: the entries, the central records and the end record are
\* written one after the other from byte 0
ZipAssemble ==
  /\ pc = "zipFile"
  /\ UNCHANGED <<unzipVars, otherVars>>
  /\ zipFile' =
       Flatten(zipArray) \o Flatten(centralDirectoryArray) \o endOfCentralDirectory
  /\ currentOffset' = SumLen(zipArray) + SumLen(centralDirectoryArray)
  /\ pc' = "zipBlob"
  /\ UNCHANGED <<files, globalOffset, thrown, zipData, centralDirectory,
                 zipArray, centralDirectoryArray, endOfCentralDirectory,
                 zipBlob, linkClicks>>

\* lines 3511-3516: the Blob, the download link and its click, the return
ZipReturn ==
  /\ pc = "zipBlob"
  /\ UNCHANGED <<unzipVars, otherVars>>
  /\ zipBlob' = zipFile
  /\ linkClicks' = linkClicks + 1
  /\ pc' = "returned"
  /\ UNCHANGED <<files, globalOffset, thrown, zipData, centralDirectory,
                 currentOffset, zipArray, centralDirectoryArray,
                 endOfCentralDirectory, zipFile>>

ZipInit ==
  /\ files \in FileLists
  /\ globalOffset \in GlobalOffsets
  /\ pc = "zipData"
  /\ thrown = "none"
  /\ zipData = <<>>
  /\ centralDirectory = <<>>
  /\ currentOffset = 0
  /\ zipArray = <<>>
  /\ centralDirectoryArray = <<>>
  /\ endOfCentralDirectory = <<>>
  /\ zipFile = <<>>
  /\ zipBlob = <<>>
  /\ linkClicks = 0

ZipNext ==
  \/ ZipBuildZipData
  \/ ZipBuildCentralDirectory
  \/ ZipBuildZipArray
  \/ ZipBuildCentralDirectoryArray
  \/ ZipBuildEndOfCentralDirectory
  \/ ZipAssemble
  \/ ZipReturn


(***************************************************************************)
(* JSZip, the library File.unzip hands the bytes to (lines 3290-3294):     *)
(* zip.loadAsync reads the end-of-central-directory record from the end of *)
(* the buffer, then the central directory, then each local header, with    *)
(* the field positions of the ZIP format.  It does not check CRC-32 values *)
(* unless asked to (File.unzip passes no options).                         *)
(***************************************************************************)
SigLocal == <<80, 75, 3, 4>>
SigCentral == <<80, 75, 1, 2>>
SigEnd == <<80, 75, 5, 6>>

\* whether the four bytes at 0-based offset off of buf are sig
SigAt(buf, off, sig) ==
  off >= 0 /\ off + 4 <= Len(buf) /\ Slice(buf, off, 4) = sig

\* reader.lastIndexOfSignature: the last offset where sig stands, -1 if none
LastIndexOfSignature(buf, sig) ==
  LET found == {i \in 0..(Len(buf) - 4) : Slice(buf, i, 4) = sig}
  IN IF found = {} THEN -1 ELSE CHOOSE i \in found : \A j \in found : j <= i

ParseError(msg) == [ok |-> FALSE, error |-> msg, entries |-> <<>>]

\* ZipEntries.readEndOfCentral: the record's fields and the reader's "zero"
ReadEndOfCentral(buf) ==
  LET at == LastIndexOfSignature(buf, SigEnd)
  IN IF at < 0
     THEN [ok |-> FALSE,
           error |-> IF SigAt(buf, 0, SigLocal)
                     THEN "Corrupted zip: can't find end of central directory"
                     ELSE "Can't find end of central directory : is this a zip file ?",
           records |-> 0, offset |-> 0, zero |-> 0]
     ELSE IF at + 22 > Len(buf) \/ at + 22 + LE16(buf, at + 20) > Len(buf)
     THEN [ok |-> FALSE, error |-> "End of data reached",
           records |-> 0, offset |-> 0, zero |-> 0]
     ELSE LET records == LE16(buf, at + 10)
              size == LE32(buf, at + 12)
              offset == LE32(buf, at + 16)
              extraBytes == at - (offset + size)
          IN IF 65535 \in {LE16(buf, at + 4), LE16(buf, at + 6),
                           LE16(buf, at + 8), records}
             THEN [ok |-> FALSE,
                   error |-> "Corrupted zip: can't find the ZIP64 end of central directory locator",
                   records |-> 0, offset |-> 0, zero |-> 0]
             ELSE IF extraBytes < 0
             THEN [ok |-> FALSE, error |-> "Corrupted zip: missing bytes",
                   records |-> 0, offset |-> 0, zero |-> 0]
             ELSE [ok |-> TRUE, error |-> "",
                   records |-> records, offset |-> offset,
                   zero |-> IF extraBytes > 0 /\ ~SigAt(buf, at, SigCentral)
                            THEN extraBytes ELSE 0]

RECURSIVE ReadCentralDir(_, _, _)
\* ZipEntries.readCentralDir with ZipEntry.readCentralPart: the records that
\* stand one after the other from absolute position at
ReadCentralDir(buf, at, acc) ==
  IF at + 4 > Len(buf) THEN ParseError("End of data reached")
  ELSE IF ~SigAt(buf, at, SigCentral)
  THEN [ok |-> TRUE, error |-> "", entries |-> acc]
  ELSE IF at + 46 > Len(buf) THEN ParseError("End of data reached")
  ELSE LET next == at + 46 + LE16(buf, at + 28) + LE16(buf, at + 30)
                      + LE16(buf, at + 32)
       IN IF LE16(buf, at + 8) % 2 = 1
          THEN ParseError("Encrypted zip are not supported")
          ELSE IF next > Len(buf) THEN ParseError("End of data reached")
          ELSE ReadCentralDir(buf, next,
                 Append(acc, [compressionMethod |-> LE16(buf, at + 10),
                              compressedSize |-> LE32(buf, at + 20),
                              uncompressedSize |-> LE32(buf, at + 24),
                              localHeaderOffset |-> LE32(buf, at + 42)]))

\* ZipEntries.readLocalFiles with ZipEntry.readLocalPart for one central
\* entry: the name and the stored bytes, read at the entry's local header
ReadLocalPart(buf, zero, central) ==
  LET at == zero + central.localHeaderOffset
  IN IF at + 4 > Len(buf) THEN ParseError("End of data reached")
     ELSE IF ~SigAt(buf, at, SigLocal)
     THEN ParseError("Corrupted zip or bug: unexpected signature")
     ELSE IF at + 30 > Len(buf) THEN ParseError("End of data reached")
     ELSE LET nameAt == at + 30
              dataAt == nameAt + LE16(buf, at + 26) + LE16(buf, at + 28)
          IN IF dataAt > Len(buf) THEN ParseError("End of data reached")
             ELSE IF central.compressionMethod # 0
             THEN ParseError("Corrupted zip : compression unknown")
             ELSE IF dataAt + central.compressedSize > Len(buf)
             THEN ParseError("End of data reached")
             ELSE [ok |-> TRUE, error |-> "",
                   entries |-> <<[fileName |-> Slice(buf, nameAt, LE16(buf, at + 26)),
                                  data |-> Slice(buf, dataAt, central.compressedSize),
                                  uncompressedSize |-> central.uncompressedSize]>>]

RECURSIVE ReadLocalFiles(_, _, _)
ReadLocalFiles(buf, zero, centrals) ==
  IF centrals = <<>> THEN [ok |-> TRUE, error |-> "", entries |-> <<>>]
  ELSE LET first == ReadLocalPart(buf, zero, Head(centrals))
       IN IF ~first.ok THEN first
          ELSE LET rest == ReadLocalFiles(buf, zero, Tail(centrals))
               IN IF ~rest.ok THEN rest
                  ELSE [ok |-> TRUE, error |-> "",
                        entries |-> first.entries \o rest.entries]

\* ZipEntries.load: the entries of the archive, or the error it throws
ZipEntriesLoad(buf) ==
  LET end == ReadEndOfCentral(buf)
  IN IF ~end.ok THEN ParseError(end.error)
     ELSE LET dir == ReadCentralDir(buf, end.zero + end.offset, <<>>)
          IN IF ~dir.ok THEN dir
             ELSE IF end.records # 0 /\ dir.entries = <<>>
             THEN ParseError("Corrupted zip or bug: expected records in central dir, got 0")
             ELSE ReadLocalFiles(buf, end.zero, dir.entries)

(***************************************************************************)
(* JSZip's UTF-8 decoder (utf8decode), used for names and for              *)
(* async("string").                                                        *)
(***************************************************************************)
\* the length of the sequence a lead byte announces
Utf8Len(c) ==
  IF c >= 252 THEN 6 ELSE IF c >= 248 THEN 5 ELSE IF c >= 240 THEN 4
  ELSE IF c >= 224 THEN 3 ELSE IF c >= 192 THEN 2 ELSE 1

RECURSIVE Accumulate(_, _, _, _)
\* c = (c << 6) | (buf[i++] & 0x3f), n times from 1-based index i
Accumulate(c, buf, i, n) ==
  IF n = 0 THEN c ELSE Accumulate(c * 64 + (buf[i] % 64), buf, i + 1, n - 1)

\* the code units of a code point
Utf16Units(c) ==
  IF c < 65536 THEN <<c>>
  ELSE <<55296 + (((c - 65536) \div 1024) % 1024), 56320 + ((c - 65536) % 1024)>>

RECURSIVE DecodeFrom(_, _)
\* the decoding of buf from 1-based index i
DecodeFrom(buf, i) ==
  IF i > Len(buf) THEN <<>>
  ELSE LET c == buf[i]
           n == Utf8Len(c)
           have == IF Len(buf) - i < n - 1 THEN Len(buf) - i ELSE n - 1
           first == IF n = 2 THEN c % 32 ELSE IF n = 3 THEN c % 16 ELSE c % 8
       IN IF c < 128 THEN <<c>> \o DecodeFrom(buf, i + 1)
          ELSE IF n > 4 THEN <<65533>> \o DecodeFrom(buf, i + n)
          ELSE IF have < n - 1 THEN <<65533>>
          ELSE Utf16Units(Accumulate(first, buf, i + 1, have))
                 \o DecodeFrom(buf, i + n)

RECURSIVE Utf8Decode(_)
\* the decoding of buf; a long buffer is decoded by halves when the first
\* half ends with five bytes below 0x80, after which the decoder is at the
\* start of a character whatever came before
Utf8Decode(buf) ==
  LET h == Len(buf) \div 2
  IN IF Len(buf) > 16 /\ \A j \in (h - 4)..h : buf[j] < 128
     THEN Utf8Decode(SubSeq(buf, 1, h)) \o Utf8Decode(SubSeq(buf, h + 1, Len(buf)))
     ELSE DecodeFrom(buf, 1)

\* the 1-based index of the first element of seq named name, 0 if none
IndexOfName(seq, name) ==
  IF \E i \in 1..Len(seq) : seq[i].name = name
  THEN CHOOSE i \in 1..Len(seq) :
         seq[i].name = name /\ \A j \in 1..(i - 1) : seq[j].name # name
  ELSE 0

RECURSIVE AddFiles(_, _)
\* load's addFiles: zip.file(name, data) for each entry in turn; zip.files
\* is an object keyed by name, so a second entry of the same name replaces
\* the first one's value and keeps its place
AddFiles(zipFiles, entries) ==
  IF entries = <<>> THEN zipFiles
  ELSE LET e == [name |-> Utf8Decode(Head(entries).fileName),
                 data |-> Head(entries).data,
                 uncompressedSize |-> Head(entries).uncompressedSize]
           at == IndexOfName(zipFiles, e.name)
       IN AddFiles(IF at = 0 THEN Append(zipFiles, e)
                   ELSE [zipFiles EXCEPT ![at] = e],
                   Tail(entries))

\* zip.loadAsync(arrayBuffer): the files of the archive, by name, or the
\* error the returned promise rejects with
LoadAsync(buf) ==
  LET loaded == ZipEntriesLoad(buf)
  IN IF loaded.ok
     THEN [ok |-> TRUE, error |-> "", files |-> AddFiles(<<>>, loaded.entries)]
     ELSE [ok |-> FALSE, error |-> loaded.error, files |-> <<>>]

(***************************************************************************)
(* CRC-32 (the checksum of the ZIP format): reflected polynomial           *)
(* 0xEDB88320, initial value and final XOR 0xFFFFFFFF.  A 32-bit value is   *)
(* a sequence of 32 bits, least significant first.                         *)
(***************************************************************************)
ByteBits(b) == [i \in 1..8 |-> (b \div (2 ^ (i - 1))) % 2]

PolyBits == ByteBits(32) \o ByteBits(131) \o ByteBits(184) \o ByteBits(237)

XorBits(a, b) == [i \in 1..32 |-> (a[i] + b[i]) % 2]

ShiftBit(crc) ==
  IF crc[1] = 1 THEN XorBits(Tail(crc) \o <<0>>, PolyBits) ELSE Tail(crc) \o <<0>>

RECURSIVE ShiftBits(_, _)
\* n steps of the bitwise algorithm on the 32 bits crc
ShiftBits(crc, n) ==
  IF Len(crc) = 32 /\ n = 0 THEN crc ELSE ShiftBits(ShiftBit(crc), n - 1)

RECURSIVE CrcUpdate(_, _)
\* the register after the bytes, one byte at a time
CrcUpdate(crc, bytes) ==
  IF Len(crc) = 32 /\ bytes = <<>> THEN crc
  ELSE CrcUpdate(ShiftBits(XorBits(crc, ByteBits(Head(bytes)) \o Zeros(24)), 8),
                 Tail(bytes))

\* the byte made of bits 8k+1 .. 8k+8
BitsByte(bits, k) ==
  bits[8 * k + 1] + 2 * bits[8 * k + 2] + 4 * bits[8 * k + 3]
    + 8 * bits[8 * k + 4] + 16 * bits[8 * k + 5] + 32 * bits[8 * k + 6]
    + 64 * bits[8 * k + 7] + 128 * bits[8 * k + 8]

\* the CRC-32 of bytes, as the four bytes of its little-endian field
Crc32(bytes) ==
  LET crc == XorBits(CrcUpdate([i \in 1..32 |-> 1], bytes), [i \in 1..32 |-> 1])
  IN <<BitsByte(crc, 0), BitsByte(crc, 1), BitsByte(crc, 2), BitsByte(crc, 3)>>

(***************************************************************************)
(* The Blob File.unzip is called with (line 3285) is either what File.zip  *)
(* returned or an archive of the same entries written by a ZIP writer that *)
(* follows the format: stored entries with true sizes, CRC-32 values and   *)
(* offsets.  Either may have one content byte changed on the way.          *)
(***************************************************************************)
Bytes16(v) == <<v % 256, (v \div 256) % 256>>

Bytes32(v) ==
  <<v % 256, (v \div 256) % 256, (v \div 65536) % 256, (v \div 16777216) % 256>>

WriterLocalEntry(file) ==
  SigLocal \o <<10, 0>> \o <<0, 8>> \o <<0, 0>> \o <<0, 0>> \o <<33, 0>>
    \o Crc32(TextEncode(file.content))
    \o Bytes32(Len(TextEncode(file.content)))
    \o Bytes32(Len(TextEncode(file.content)))
    \o Bytes16(Len(TextEncode(file.name))) \o <<0, 0>>
    \o TextEncode(file.name) \o TextEncode(file.content)

WriterCentralRecord(file, at) ==
  SigCentral \o <<20, 0>> \o <<10, 0>> \o <<0, 8>> \o <<0, 0>> \o <<0, 0>>
    \o <<33, 0>>
    \o Crc32(TextEncode(file.content))
    \o Bytes32(Len(TextEncode(file.content)))
    \o Bytes32(Len(TextEncode(file.content)))
    \o Bytes16(Len(TextEncode(file.name))) \o <<0, 0>> \o <<0, 0>> \o <<0, 0>>
    \o <<0, 0>> \o <<0, 0, 0, 0>> \o Bytes32(at)
    \o TextEncode(file.name)

WriterArchive(fs) ==
  LET locals == [i \in 1..Len(fs) |-> WriterLocalEntry(fs[i])]
      centrals == [i \in 1..Len(fs) |->
                     WriterCentralRecord(fs[i], SumLen(SubSeq(locals, 1, i - 1)))]
  IN Flatten(locals) \o Flatten(centrals)
       \o SigEnd \o <<0, 0>> \o <<0, 0>> \o Bytes16(Len(fs)) \o Bytes16(Len(fs))
       \o Bytes32(SumLen(centrals)) \o Bytes32(SumLen(locals)) \o <<0, 0>>

\* the 0-based offsets of the content bytes of the i-th entry in an archive
\* whose local entries are entries and whose local headers have headerLen
\* bytes before the name
ContentOffsets(entries, fs, i, headerLen) ==
  LET start == SumLen(SubSeq(entries, 1, i - 1)) + headerLen
                 + Len(TextEncode(fs[i].name))
  IN start..(start + Len(TextEncode(fs[i].content)) - 1)

\* buf with the byte at 0-based offset at changed
ChangeByte(buf, at) == [buf EXCEPT ![at + 1] = (buf[at + 1] + 1) % 256]

(***************************************************************************)
(* File.unzip, lines 3285-3306.                                            *)
(***************************************************************************)
\* lines 3285-3287 and 3304: the promise, the reader, readAsArrayBuffer
UnzipCall(bytes, source, at) ==
  /\ unzipPc = "idle"
  /\ pc \in {"returned", "thrown"}
  /\ blob' = IF at < 0 THEN bytes ELSE ChangeByte(bytes, at)
  /\ blobSource' = source
  /\ tamperedAt' = at
  /\ unzipPc' = "reading"
  /\ promise' = "pending"
  /\ UNCHANGED <<rejectReason, loadAsyncResult, loadedFiles, extractedFiles,
                 pendingEntries, lengthAtResolve>>
  /\ UNCHANGED <<zipVars, otherVars>>

\* File.unzip on the Blob that File.zip returned
UnzipZipBlob ==
  /\ pc = "returned"
  /\ UnzipCall(zipBlob, "zip", -1)

\* File.unzip on that Blob with one content byte changed
UnzipTamperedZipBlob ==
  /\ pc = "returned"
  /\ \E i \in 1..Len(zipArray) :
       \E at \in ContentOffsets(zipArray, files, i, Len(LocalHeader(zipData[i]))) :
         UnzipCall(zipBlob, "zip", at)

\* File.unzip on a well-formed archive of the same entries
UnzipWriterBlob ==
  /\ pc \in {"returned", "thrown"}
  /\ UnzipCall(WriterArchive(files), "writer", -1)

\* File.unzip on that archive with one content byte changed
UnzipTamperedWriterBlob ==
  /\ pc \in {"returned", "thrown"}
  /\ \E i \in 1..Len(files) :
       \E at \in ContentOffsets([j \in 1..Len(files) |-> WriterLocalEntry(files[j])],
                                files, i, 30) :
         UnzipCall(WriterArchive(files), "writer", at)

\* the ways a Blob fails to be a well-formed archive: a byte stands before
\* the first local header, a byte stands after the end record, the last
\* byte is missing
MalformedKinds == {"prefixed", "suffixed", "truncated"}

MalformedArchive(fs, kind) ==
  IF kind = "prefixed" THEN <<0>> \o WriterArchive(fs)
  ELSE IF kind = "suffixed" THEN WriterArchive(fs) \o <<0>>
  ELSE SubSeq(WriterArchive(fs), 1, Len(WriterArchive(fs)) - 1)

\* File.unzip on a Blob that is not a well-formed archive
UnzipMalformedBlob ==
  /\ pc \in {"returned", "thrown"}
  /\ \E kind \in MalformedKinds :
       UnzipCall(MalformedArchive(files, kind), kind, -1)

\* the 0-based offset of the uncompressed-size field of the i-th central
\* record of WriterArchive(fs)
UncompressedSizeOffset(fs, i) ==
  SumLen([j \in 1..Len(fs) |-> WriterLocalEntry(fs[j])])
    + SumLen([j \in 1..(i - 1) |-> WriterCentralRecord(fs[j], 0)]) + 24

\* File.unzip on an archive one of whose central records declares an
\* uncompressed size that is not the size of the entry's stored bytes
UnzipBadSizeBlob ==
  /\ pc \in {"returned", "thrown"}
  /\ \E i \in 1..Len(files) :
       UnzipCall(WriterArchive(files), "badSize", UncompressedSizeOffset(files, i))

\* lines 3288-3291: reader.onload hands the bytes to zip.loadAsync
ReaderOnLoad ==
  /\ unzipPc = "reading"
  /\ loadAsyncResult' = LoadAsync(blob)
  /\ unzipPc' = "loading"
  /\ UNCHANGED <<blob, blobSource, tamperedAt, promise, rejectReason,
                 loadedFiles, extractedFiles, pendingEntries, lengthAtResolve>>
  /\ UNCHANGED <<zipVars, otherVars>>

\* lines 3301-3303: reader.onerror
ReaderOnError ==
  /\ unzipPc = "reading"
  /\ unzipPc' = "done"
  /\ promise' = "rejected"
  /\ rejectReason' = [name |-> "Error", message |-> <<"Error reading zip file.", "">>]
  /\ UNCHANGED <<blob, blobSource, tamperedAt, loadAsyncResult, loadedFiles,
                 extractedFiles, pendingEntries, lengthAtResolve>>
  /\ UNCHANGED <<zipVars, otherVars>>

\* lines 3291-3298, the handler of loadAsync's fulfilment: extractedFiles is
\* empty, one async("string") is started per file, and Promise.all is given
\* extractedFiles as it is then (empty), so its promise is fulfilled at once
\* and the handler that resolves is queued
LoadAsyncThen ==
  /\ unzipPc = "loading"
  /\ loadAsyncResult.ok
  /\ loadedFiles' = loadAsyncResult.files
  /\ extractedFiles' = <<>>
  /\ pendingEntries' = 1..Len(loadAsyncResult.files)
  /\ unzipPc' = "allQueued"
  /\ UNCHANGED <<blob, blobSource, tamperedAt, promise, rejectReason,
                 loadAsyncResult, lengthAtResolve>>
  /\ UNCHANGED <<zipVars, otherVars>>

\* line 3299, the handler of loadAsync's rejection
LoadAsyncCatch ==
  /\ unzipPc = "loading"
  /\ ~loadAsyncResult.ok
  /\ promise' = "rejected"
  /\ rejectReason' =
       [name |-> "Error",
        message |-> <<"Failed to unzip the file: ", loadAsyncResult.error>>]
  /\ unzipPc' = "done"
  /\ UNCHANGED <<blob, blobSource, tamperedAt, loadAsyncResult, loadedFiles,
                 extractedFiles, pendingEntries, lengthAtResolve>>
  /\ UNCHANGED <<zipVars, otherVars>>

\* line 3298, the handler of Promise.all's fulfilment: resolve(extractedFiles).
\* It is a microtask queued by LoadAsyncThen; the async("string") results
\* arrive through JSZip's stream workers, which run on later tasks.
PromiseAllThen ==
  /\ unzipPc = "allQueued"
  /\ promise' = "resolved"
  /\ lengthAtResolve' = Len(extractedFiles)
  /\ unzipPc' = "resolved"
  /\ UNCHANGED <<blob, blobSource, tamperedAt, rejectReason, loadAsyncResult,
                 loadedFiles, extractedFiles, pendingEntries>>
  /\ UNCHANGED <<zipVars, otherVars>>

\* async("string") of a stored entry (line 3294): JSZip's content worker
\* counts the bytes it delivers and fails when the count is not the
\* uncompressed size the central record declared
ExtractionSucceeds(file) == Len(file.data) = file.uncompressedSize

\* lines 3294-3296, the handler of one async("string"): the push.  The
\* extractions are started together (line 3293) and each promise is
\* fulfilled when JSZip has delivered the entry's bytes, block by block on
\* later tasks, so they complete in an order that line 3293 does not fix.
ExtractionThen(i) ==
  /\ unzipPc = "resolved"
  /\ i \in pendingEntries
  /\ ExtractionSucceeds(loadedFiles[i])
  /\ extractedFiles' =
       Append(extractedFiles,
              [name |-> loadedFiles[i].name,
               content |-> Utf8Decode(loadedFiles[i].data)])
  /\ pendingEntries' = pendingEntries \ {i}
  /\ UNCHANGED <<unzipPc, blob, blobSource, tamperedAt, promise, rejectReason,
                 loadAsyncResult, loadedFiles, lengthAtResolve>>
  /\ UNCHANGED <<zipVars, otherVars>>

\* line 3294, an async("string") that fails: its promise has no rejection
\* handler (the then of line 3294 has one argument, the catch of line 3298
\* is on Promise.all's promise), so nothing is pushed and nothing rejects
ExtractionFails(i) ==
  /\ unzipPc = "resolved"
  /\ i \in pendingEntries
  /\ ~ExtractionSucceeds(loadedFiles[i])
  /\ pendingEntries' = pendingEntries \ {i}
  /\ UNCHANGED <<unzipPc, blob, blobSource, tamperedAt, promise, rejectReason,
                 loadAsyncResult, loadedFiles, extractedFiles, lengthAtResolve>>
  /\ UNCHANGED <<zipVars, otherVars>>

UnzipInit ==
  /\ unzipPc = "idle"
  /\ blob = <<>>
  /\ blobSource = "none"
  /\ tamperedAt = -1
  /\ promise = "none"
  /\ rejectReason = [name |-> "", message |-> <<"", "">>]
  /\ loadAsyncResult = [ok |-> FALSE, error |-> "", files |-> <<>>]
  /\ loadedFiles = <<>>
  /\ extractedFiles = <<>>
  /\ pendingEntries = {}
  /\ lengthAtResolve = 0

UnzipNext ==
  \/ UnzipZipBlob
  \/ UnzipTamperedZipBlob
  \/ UnzipWriterBlob
  \/ UnzipTamperedWriterBlob
  \/ UnzipMalformedBlob
  \/ UnzipBadSizeBlob
  \/ ReaderOnLoad
  \/ ReaderOnError
  \/ LoadAsyncThen
  \/ LoadAsyncCatch
  \/ PromiseAllThen
  \/ \E i \in 1..MaxFiles : ExtractionThen(i)
  \/ \E i \in 1..MaxFiles : ExtractionFails(i)

(***************************************************************************)
(* A second invocation of File.zip on the same page.  Every array of the   *)
(* function is a local that starts empty in each invocation (lines 3315,   *)
(* 3324, 3334, 3389); the `offset` that line 3492 reads is not one of      *)
(* them: it belongs to the page, which can bind it between two calls.      *)
(***************************************************************************)
NoCall == [made |-> FALSE, returned |-> FALSE, thrown |-> "none", zipBlob |-> <<>>]

CallInit == previousCall = NoCall

\* lines 3314-3335: File.zip is called again with the same list
ZipCallAgain ==
  /\ pc \in {"returned", "thrown"}
  /\ ~previousCall.made
  /\ previousCall' = [made |-> TRUE, returned |-> pc = "returned",
                      thrown |-> thrown, zipBlob |-> zipBlob]
  /\ pc' = "zipData"
  /\ thrown' = "none"
  /\ zipData' = <<>>
  /\ centralDirectory' = <<>>
  /\ currentOffset' = 0
  /\ zipArray' = <<>>
  /\ centralDirectoryArray' = <<>>
  /\ endOfCentralDirectory' = <<>>
  /\ zipFile' = <<>>
  /\ zipBlob' = <<>>
  /\ UNCHANGED <<files, globalOffset, linkClicks>>
  /\ UNCHANGED <<unzipVars, storageVars>>

\* line 3492: a script of the page binds, rebinds or deletes the global
\* `offset` between the two calls
PageSetsOffset ==
  /\ pc \in {"returned", "thrown"}
  /\ ~previousCall.made
  /\ globalOffset' \in GlobalOffsets \ {globalOffset}
  /\ UNCHANGED <<files, pc, thrown, zipData, centralDirectory, currentOffset,
                 zipArray, centralDirectoryArray, endOfCentralDirectory,
                 zipFile, zipBlob, linkClicks>>
  /\ UNCHANGED <<unzipVars, callVars, storageVars>>

(***************************************************************************)
(* BrowserStorage over window.localStorage (lines 4702-4888).  The         *)
(* storage is the list of its <<key, item>> pairs in the order key(i)      *)
(* gives them.  That order is up to the browser and is only stable while   *)
(* the number of keys stays the same: adding or removing a key may leave   *)
(* the remaining keys in any order.                                        *)
(***************************************************************************)
MaxNow == 3
MaxExpiresIn == 1

StorageKeys == {"a", "b"}
StorageValues == {"x", "y"}

\* the third argument of setLocal: left out, or a number of milliseconds
NoExpiresIn == [given |-> FALSE, ms |-> 0]
ExpiresIns == {NoExpiresIn} \cup {[given |-> TRUE, ms |-> m] : m \in 0..MaxExpiresIn}

\* what a call returns: null, or a value
JsNull == [isNull |-> TRUE, value |-> ""]
JsValue(v) == [isNull |-> FALSE, value |-> v]

\* lines 4711-4715: JSON.stringify of { value } or { value, expiresAt };
\* `if (expiresIn)` takes a missing and a zero expiresIn alike
ItemOf(value, expiresIn, t) ==
  IF expiresIn.given /\ expiresIn.ms # 0
  THEN [value |-> value, hasExpiresAt |-> TRUE, expiresAt |-> t + expiresIn.ms]
  ELSE [value |-> value, hasExpiresAt |-> FALSE, expiresAt |-> 0]

\* the orders a browser may give the pairs of S
Orders(S) ==
  {s \in [1..Cardinality(S) -> S] :
     \A i, j \in 1..Cardinality(S) : i # j => s[i] # s[j]}

Pairs(ls) == {ls[i] : i \in 1..Len(ls)}
KeysOf(ls) == {ls[i].key : i \in 1..Len(ls)}
HasKey(ls, key) == key \in KeysOf(ls)

\* localStorage.getItem(key), for a key the storage has
GetItem(ls, key) == (CHOOSE p \in Pairs(ls) : p.key = key).item

\* localStorage.setItem(key, item): the storages it may leave
SetItem(ls, key, item) ==
  IF HasKey(ls, key)
  THEN {[i \in 1..Len(ls) |->
           IF ls[i].key = key THEN [key |-> key, item |-> item] ELSE ls[i]]}
  ELSE Orders(Pairs(ls) \cup {[key |-> key, item |-> item]})

\* localStorage.removeItem(key): the storages it may leave
RemoveItem(ls, key) ==
  IF HasKey(ls, key)
  THEN Orders({p \in Pairs(ls) : p.key # key})
  ELSE {ls}

\* line 4727: the item of key carries an expiry that has passed at time t
ItemExpired(ls, key, t) ==
  /\ HasKey(ls, key)
  /\ GetItem(ls, key).hasExpiresAt
  /\ GetItem(ls, key).expiresAt # 0
  /\ t > GetItem(ls, key).expiresAt

\* lines 4723-4734: what getLocal(key) returns at time t
GetLocalResult(ls, key, t) ==
  IF HasKey(ls, key) /\ ~ItemExpired(ls, key, t)
  THEN JsValue(GetItem(ls, key).value)
  ELSE JsNull

\* lines 4727-4729: the storages getLocal(key) may leave at time t
GetLocalStorages(ls, key, t) ==
  IF ItemExpired(ls, key, t) THEN RemoveItem(ls, key) ELSE {ls}

\* the argument of syncLocalStorage: an object, as the list of its entries
SyncDatas ==
  {d \in UNION {[1..n -> [key : StorageKeys, value : StorageValues]] : n \in 0..2} :
     \A i, j \in 1..Len(d) : i # j => d[i].key # d[j].key}

\* lines 4848-4850 and 4853-4855: setLocal(key, value) for each entry of data
RECURSIVE SetAll(_, _, _)
SetAll(lss, data, t) ==
  IF data = <<>> THEN lss
  ELSE SetAll(UNION {SetItem(ls, Head(data).key,
                             ItemOf(Head(data).value, NoExpiresIn, t)) : ls \in lss},
              Tail(data), t)

\* what the last setLocal of a key was
NeverStored == [set |-> FALSE, value |-> "", expiresIn |-> NoExpiresIn, at |-> 0]
StoredBy(value, expiresIn, t) ==
  [set |-> TRUE, value |-> value, expiresIn |-> expiresIn, at |-> t]

RECURSIVE StoredAll(_, _, _)
StoredAll(st, data, t) ==
  IF data = <<>> THEN st
  ELSE StoredAll([st EXCEPT ![Head(data).key] =
                    StoredBy(Head(data).value, NoExpiresIn, t)],
                 Tail(data), t)

\* the record of a completed call
NoStorageCall ==
  [op |-> "none", key |-> "", result |-> JsNull, at |-> 0, before |-> <<>>,
   after |-> <<>>, data |-> <<>>, merge |-> FALSE, thrown |-> "none",
   keys |-> {}, calls |-> <<>>]

StorageInit ==
  /\ localStorage = <<>>
  /\ now = 1
  /\ stored = [k \in StorageKeys |-> NeverStored]
  /\ lastCall = NoStorageCall
  /\ batchPc = "idle"
  /\ batchIndex = 0
  /\ batchKeys = {}
  /\ batchCalls = <<>>

\* Date.now() moves on
Tick ==
  /\ now < MaxNow
  /\ now' = now + 1
  /\ UNCHANGED <<localStorage, stored, lastCall, batchPc, batchIndex,
                 batchKeys, batchCalls>>
  /\ UNCHANGED <<zipVars, unzipVars, callVars>>

\* lines 4710-4716
SetLocal(key, value, expiresIn) ==
  /\ batchPc = "idle"
  /\ localStorage' \in SetItem(localStorage, key, ItemOf(value, expiresIn, now))
  /\ stored' = [stored EXCEPT ![key] = StoredBy(value, expiresIn, now)]
  /\ lastCall' = [NoStorageCall EXCEPT !.op = "setLocal", !.key = key, !.at = now,
                    !.before = localStorage, !.after = localStorage']
  /\ UNCHANGED <<now, batchPc, batchIndex, batchKeys, batchCalls>>
  /\ UNCHANGED <<zipVars, unzipVars, callVars>>

\* lines 4723-4734
GetLocal(key) ==
  /\ batchPc = "idle"
  /\ localStorage' \in GetLocalStorages(localStorage, key, now)
  /\ lastCall' = [NoStorageCall EXCEPT !.op = "getLocal", !.key = key,
                    !.result = GetLocalResult(localStorage, key, now),
                    !.at = now, !.before = localStorage,
                    !.after = localStorage']
  /\ UNCHANGED <<now, stored, batchPc, batchIndex, batchKeys, batchCalls>>
  /\ UNCHANGED <<zipVars, unzipVars, callVars>>

\* lines 4846-4857: without merge the call stops at this.clearLocal(), which
\* no class defines, with a TypeError
SyncLocalStorage(data, merge) ==
  /\ batchPc = "idle"
  /\ IF merge
     THEN /\ localStorage' \in SetAll({localStorage}, data, now)
          /\ stored' = StoredAll(stored, data, now)
          /\ lastCall' = [NoStorageCall EXCEPT !.op = "syncLocalStorage",
                            !.at = now, !.before = localStorage,
                            !.after = localStorage',
                            !.data = data, !.merge = TRUE]
     ELSE /\ localStorage' = localStorage
          /\ stored' = stored
          /\ lastCall' = [NoStorageCall EXCEPT !.op = "syncLocalStorage",
                            !.at = now, !.before = localStorage,
                            !.after = localStorage',
                            !.data = data, !.merge = FALSE,
                            !.thrown = "TypeError"]
  /\ UNCHANGED <<now, batchPc, batchIndex, batchKeys, batchCalls>>
  /\ UNCHANGED <<zipVars, unzipVars, callVars>>

\* line 4883: batchProcessLocalStorage(callback) is called
BatchProcessLocalStorage ==
  /\ batchPc = "idle"
  /\ batchPc' = "loop"
  /\ batchIndex' = 0
  /\ batchKeys' = KeysOf(localStorage)
  /\ batchCalls' = <<>>
  /\ UNCHANGED <<localStorage, now, stored, lastCall>>
  /\ UNCHANGED <<zipVars, unzipVars, callVars>>

\* lines 4884-4887: one turn of `for (let i = 0; i < localStorage.length; i++)`
BatchIterate ==
  /\ batchPc = "loop"
  /\ batchIndex < Len(localStorage)
  /\ LET key == localStorage[batchIndex + 1].key
     IN /\ localStorage' \in GetLocalStorages(localStorage, key, now)
        /\ batchCalls' = Append(batchCalls,
                                [key |-> key,
                                 value |-> GetLocalResult(localStorage, key, now)])
  /\ batchIndex' = batchIndex + 1
  /\ UNCHANGED <<now, stored, lastCall, batchPc, batchKeys>>
  /\ UNCHANGED <<zipVars, unzipVars, callVars>>

\* line 4884: the loop ends when i reaches localStorage.length
BatchReturn ==
  /\ batchPc = "loop"
  /\ batchIndex >= Len(localStorage)
  /\ lastCall' = [NoStorageCall EXCEPT !.op = "batchProcessLocalStorage",
                    !.at = now, !.keys = batchKeys, !.calls = batchCalls]
  /\ batchPc' = "idle"
  /\ batchIndex' = 0
  /\ batchKeys' = {}
  /\ batchCalls' = <<>>
  /\ UNCHANGED <<localStorage, now, stored>>
  /\ UNCHANGED <<zipVars, unzipVars, callVars>>

StorageNext ==
  \/ Tick
  \/ \E key \in StorageKeys, value \in StorageValues, expiresIn \in ExpiresIns :
       SetLocal(key, value, expiresIn)
  \/ \E key \in StorageKeys : GetLocal(key)
  \/ \E data \in SyncDatas, merge \in BOOLEAN : SyncLocalStorage(data, merge)
  \/ BatchProcessLocalStorage
  \/ BatchIterate
  \/ BatchReturn

Init == ZipInit /\ UnzipInit /\ CallInit /\ StorageInit

Next == ZipNext \/ UnzipNext

\* File.zip, then File.unzip
Spec == Init /\ [][Next]_vars

\* File.zip alone
ZipSpec == Init /\ [][ZipNext]_vars

\* File.zip twice on one page
RepeatNext == ZipNext \/ ZipCallAgain \/ PageSetsOffset

RepeatSpec == Init /\ [][RepeatNext]_vars

\* BrowserStorage alone, File.zip and File.unzip not called
StorageInitial ==
  /\ Init
  /\ files = <<>>
  /\ ~globalOffset.declared

StorageSpec == StorageInitial /\ [][StorageNext]_vars

(***************************************************************************)
(* Reading the records File.zip builds.  A field is read at the position   *)
(* the ZIP format gives it (the layout JSZip reads) and at the position    *)
(* where the source's own comments place it; a statement about a field is  *)
(* taken to hold when it holds at either position.                         *)
(***************************************************************************)
\* a 32-bit field of rec that the format puts at zipAt and the source at srcAt
Field32Is(rec, zipAt, srcAt, v) ==
  \/ LE32(rec, zipAt) = v
  \/ LE32(rec, srcAt) = v

\* the same for a 16-bit field
Field16Is(rec, zipAt, srcAt, v) ==
  \/ LE16(rec, zipAt) = v
  \/ LE16(rec, srcAt) = v

\* File.zip has returned or thrown
ZipFinished == pc \in {"returned", "thrown"}

\* every name of the call is made of characters below 0x80
AsciiNames == \A i \in 1..Len(files) : \A j \in 1..Len(files[i].name) :
                files[i].name[j] < 128

\* every name of the call is non-empty and made of characters below 0x80
PlainNames == AsciiNames /\ \A i \in 1..Len(files) : files[i].name # <<>>

\* no two entries of the call have the same name
UniqueNames == \A i, j \in 1..Len(files) :
                 files[i].name = files[j].name => i = j

\* File.unzip's promise has settled, and not because the Blob was unreadable
UnzipSettled ==
  /\ promise \in {"resolved", "rejected"}
  /\ rejectReason.message[1] # "Error reading zip file."

\* the 0-based offset at which the i-th local entry is written (lines 3501-3505)
LocalEntryOffset(i) == SumLen(SubSeq(zipArray, 1, i - 1))

(***************************************************************************)
(* The claims.                                                             *)
(***************************************************************************)
\* C1: round trip.  For entries E with unique names, File.unzip of the Blob
\* that File.zip(E) returned yields, once every extraction has completed,
\* entries equal to E by name and content, in the order of E (stated here
\* for the non-empty lists E whose names are non-empty and ASCII).
ClaimC1_RoundTrip ==
  (/\ blobSource = "zip" /\ tamperedAt = -1
   /\ files # <<>> /\ UniqueNames /\ PlainNames
   /\ UnzipSettled /\ pendingEntries = {})
    => /\ promise = "resolved"
       /\ extractedFiles = files

\* C2: File.zip runs to completion without throwing and returns a Blob with
\* the assembled bytes, for every list of entries (stated here for the lists
\* whose names are ASCII); in particular nothing it reads while building the
\* end-of-central-directory record is undefined in its scope.
ClaimC2_ZipCompletes ==
  AsciiNames =>
    /\ thrown = "none"
    /\ pc = "returned" => zipBlob = zipFile /\ zipFile # <<>>

\* C3: offset correctness.  With more than one entry, of varying sizes, the
\* offset field of the i-th central-directory record is the position at
\* which the i-th local file header is written, the sum of the lengths of
\* the earlier entries.
ClaimC3_CentralOffsets ==
  (/\ Len(files) > 1 /\ PlainNames /\ UniqueNames
   /\ Len(centralDirectoryArray) = Len(files)
   /\ \E i, j \in 1..Len(zipArray) : Len(zipArray[i]) # Len(zipArray[j])) =>
    \A i \in 1..Len(files) :
      /\ SigAt(Flatten(zipArray), LocalEntryOffset(i), SigLocal)
      /\ \/ LE32(centralDirectoryArray[i], 42) = LocalEntryOffset(i)
         \/ LE16(centralDirectoryArray[i], 46) = LocalEntryOffset(i)

\* C4: the end-of-central-directory record carries the true size of the
\* central directory (the sum of the lengths of the central records) and its
\* true offset (the position right after the last local entry); stated for
\* the non-empty lists of entries with non-empty ASCII names.
ClaimC4_EndSizeAndOffset ==
  (endOfCentralDirectory # <<>> /\ files # <<>> /\ PlainNames) =>
    /\ \/ LE32(endOfCentralDirectory, 12) = SumLen(centralDirectoryArray)
       \/ LE16(endOfCentralDirectory, 16) = SumLen(centralDirectoryArray)
    /\ \/ LE32(endOfCentralDirectory, 16) = SumLen(zipArray)
       \/ LE16(endOfCentralDirectory, 18) = SumLen(zipArray)

\* C5: every local file header holds the length of the entry's content in its
\* compressed-size field and in its uncompressed-size field.
ClaimC5_LocalSizes ==
  PlainNames =>
    \A i \in 1..Len(zipArray) :
      /\ Field32Is(zipArray[i], 18, 22, zipData[i].contentLength)
      /\ Field32Is(zipArray[i], 22, 26, zipData[i].contentLength)

\* C6: the CRC-32 field of every local file header, and of the matching
\* central-directory record, is the CRC-32 of the entry's content bytes.
ClaimC6_Crc32Fields ==
  PlainNames =>
    /\ \A i \in 1..Len(zipArray) :
         \/ Slice(zipArray[i], 14, 4) = Crc32(zipData[i].content)
         \/ Slice(zipArray[i], 18, 4) = Crc32(zipData[i].content)
    /\ \A i \in 1..Len(centralDirectoryArray) :
         \/ Slice(centralDirectoryArray[i], 16, 4) = Crc32(zipData[i].content)
         \/ Slice(centralDirectoryArray[i], 24, 4) = Crc32(zipData[i].content)

\* C7: CRC detection.  File.unzip of an archive that File.zip produced, with
\* one content byte changed, fails with ArchiveIntegrityError, and never
\* hands out the changed content.
ClaimC7_TamperDetected ==
  (blobSource = "zip" /\ tamperedAt >= 0 /\ PlainNames /\ UnzipSettled) =>
    /\ promise = "rejected"
    /\ rejectReason.name = "ArchiveIntegrityError"
    /\ extractedFiles = <<>>

\* C8: File.zip emits exactly one end-of-central-directory record, as the
\* last bytes of the buffer, and both entry-count fields of the record hold
\* the number of entries of the call.
ClaimC8_EndRecordCounts ==
  (ZipFinished /\ PlainNames) =>
    /\ pc = "returned"
    /\ Len(zipBlob) >= 22
    /\ LET end == Slice(zipBlob, Len(zipBlob) - 22, 22)
       IN /\ SigAt(end, 0, SigEnd)
          /\ Field16Is(end, 8, 12, Len(files))
          /\ Field16Is(end, 10, 14, Len(files))
    /\ Cardinality({at \in 0..(Len(zipBlob) - 4) : SigAt(zipBlob, at, SigEnd)}) = 1

\* C9: after the local entries File.zip emits one central-directory record
\* per entry, in the order of the entries, the i-th carrying the name of the
\* i-th entry.
ClaimC9_CentralRecords ==
  (ZipFinished /\ PlainNames) =>
    /\ pc = "returned"
    /\ Len(centralDirectoryArray) = Len(files)
    /\ Slice(zipBlob, SumLen(zipArray), SumLen(centralDirectoryArray))
         = Flatten(centralDirectoryArray)
    /\ \A i \in 1..Len(centralDirectoryArray) :
         LET rec == centralDirectoryArray[i]
             name == TextEncode(files[i].name)
         IN /\ SigAt(rec, 0, SigCentral)
            /\ Len(rec) >= Len(name)
            /\ Slice(rec, Len(rec) - Len(name), Len(name)) = name

\* C10: for a name of 1 to 65535 bytes, 256 and more included, the 16-bit
\* name-length field of the local and of the central record holds the exact
\* byte length of the name.
ClaimC10_NameLengthFields ==
  /\ \A i \in 1..Len(zipArray) :
       Len(TextEncode(zipData[i].name)) \in 1..65535 =>
         Field16Is(zipArray[i], 26, 30, Len(TextEncode(zipData[i].name)))
  /\ \A i \in 1..Len(centralDirectoryArray) :
       Len(TextEncode(zipData[i].name)) \in 1..65535 =>
         Field16Is(centralDirectoryArray[i], 28, 36, Len(TextEncode(zipData[i].name)))

\* File.unzip was given, unchanged, the Blob that File.zip returned, its
\* promise has settled and no extraction is in flight
ZipBlobDecoded ==
  /\ blobSource = "zip"
  /\ tamperedAt = -1
  /\ UnzipSettled
  /\ pendingEntries = {}

\* C11: empty archive.  File.zip([]) returns a buffer that is exactly one
\* end-of-central-directory record with entry count 0, and File.unzip of that
\* buffer yields the empty sequence.
ClaimC11_EmptyArchive ==
  files = <<>> =>
    /\ ZipFinished =>
         /\ pc = "returned"
         /\ Len(zipBlob) = 22
         /\ SigAt(zipBlob, 0, SigEnd)
         /\ Field16Is(zipBlob, 8, 12, 0)
         /\ Field16Is(zipBlob, 10, 14, 0)
    /\ ZipBlobDecoded => promise = "resolved" /\ extractedFiles = <<>>

\* C12: the concrete scenario.  File.zip of the single entry hello.txt /
\* "Hi there" returns a buffer that starts with the local-file-header
\* signature, File.unzip of it yields exactly that entry, and the buffer of
\* any non-empty list starts with that signature.  (Stated for the pages
\* that bind `offset`, where File.zip gets past line 3492.)
ClaimC12_HelloScenario ==
  (globalOffset.declared /\ PlainNames /\ files # <<>>) =>
    /\ ZipFinished => pc = "returned" /\ SigAt(zipBlob, 0, SigLocal)
    /\ (files = <<HelloEntry>> /\ ZipBlobDecoded) =>
         promise = "resolved" /\ extractedFiles = files

\* File.unzip was given a well-formed archive of entries with plain names,
\* all different
WellFormedDecoded ==
  blobSource = "writer" /\ tamperedAt = -1 /\ PlainNames /\ UniqueNames

\* C13: when the promise of File.unzip resolves, the array it resolves with
\* holds one object for every file of the archive.
ClaimC13_ResolvesComplete ==
  (WellFormedDecoded /\ promise = "resolved") =>
    lengthAtResolve = Len(loadedFiles)

\* every async("string") of the archive loaded succeeds
AllExtractionsSucceed ==
  \A i \in 1..Len(loadedFiles) : ExtractionSucceeds(loadedFiles[i])

\* C14: File.unzip delivers the entries in central-directory order (the
\* order of the archive's files), whatever the order in which the
\* extractions complete.
ClaimC14_DirectoryOrder ==
  (WellFormedDecoded /\ promise = "resolved" /\ pendingEntries = {}) =>
    /\ Len(extractedFiles) = Len(loadedFiles)
    /\ \A k \in 1..Len(extractedFiles) :
         extractedFiles[k].name = loadedFiles[k].name

\* the decode failed: loadAsync rejected, or some extraction failed
DecodeFailed ==
  \/ unzipPc = "done" /\ ~loadAsyncResult.ok
       /\ rejectReason.message[1] # "Error reading zip file."
  \/ unzipPc = "resolved" /\ ~AllExtractionsSucceed

\* C15: a decode that fails hands the caller no entries at all, never a
\* list that lacks the failed entry.
ClaimC15_NoPartialList ==
  (PlainNames /\ UniqueNames /\ DecodeFailed /\ pendingEntries = {}) =>
    extractedFiles = <<>>

\* C16: File.unzip rejects with ArchiveFormatError every input that does not
\* begin with a local-file-header signature, does not end with the end
\* record, or is truncated; none is accepted.
ClaimC16_MalformedRejected ==
  (blobSource \in MalformedKinds /\ UnzipSettled) =>
    /\ promise = "rejected"
    /\ rejectReason.name = "ArchiveFormatError"

\* C17: every error surfaces synchronously, in the call itself: the promise
\* of File.unzip is never rejected by a later event or callback.
ClaimC17_SynchronousErrors ==
  [][(promise' = "rejected" /\ promise # "rejected") => unzipPc = "idle"]_vars

\* some name of the call is empty
SomeEmptyName == \E i \in 1..Len(files) : files[i].name = <<>>

\* C18: File.zip fails with ArchiveEncodingError, and produces no buffer,
\* when some entry has an empty name (or a name of more than 65535 bytes).
\* (Stated for the pages that bind `offset`.)
ClaimC18_NameLimits ==
  (globalOffset.declared /\ AsciiNames /\ SomeEmptyName /\ ZipFinished) =>
    /\ pc = "thrown"
    /\ thrown = "ArchiveEncodingError"
    /\ zipBlob = <<>>

\* the field holds v reduced modulo modulus, and v does not fit
Wrapped(v, field, modulus) == v >= modulus /\ field = v % modulus

\* C19: an archive beyond the classic limits makes File.zip fail with
\* ArchiveSizeLimitError, and no count or size field of the end record is
\* ever written with its value reduced modulo the width of the field.
ClaimC19_NoWrapAround ==
  /\ (Len(files) > 65535 /\ ZipFinished) => thrown = "ArchiveSizeLimitError"
  /\ endOfCentralDirectory # <<>> =>
       /\ ~Wrapped(Len(centralDirectoryArray),
                   LE16(endOfCentralDirectory, 12), 65536)
       /\ ~Wrapped(Len(centralDirectoryArray),
                   LE16(endOfCentralDirectory, 14), 65536)
       /\ ~Wrapped(SumLen(centralDirectoryArray),
                   LE16(endOfCentralDirectory, 16), 65536)

\* C20: one policy for duplicate names: File.zip of two entries of the same
\* name fails with ArchiveEncodingError, or File.unzip of what it returns
\* yields both entries, each with its content, at their positions.
\* (Stated for the pages that bind `offset`.)
ClaimC20_DuplicateNames ==
  (globalOffset.declared /\ PlainNames /\ ~UniqueNames /\ ZipFinished) =>
    \/ pc = "thrown" /\ thrown = "ArchiveEncodingError"
    \/ /\ pc = "returned"
       /\ ZipBlobDecoded => promise = "resolved" /\ extractedFiles = files

\* C21: File.zip is a pure function: when it has returned, no download link
\* has been created and clicked, and the list it was given is as it was.
ClaimC21_NoSideEffects ==
  pc = "returned" => linkClicks = 0

ClaimC25_LocalEntryLayout ==
  \A i \in 1..Len(zipArray) :
    LET entry == zipArray[i]
        name == TextEncode(files[i].name)
        content == TextEncode(files[i].content)
    IN \E at \in {26, 30} :
         /\ Len(entry) = at + 4 + Len(name) + Len(content)
         /\ LE16(entry, at) = Len(name)
         /\ Slice(entry, at + 4, Len(name)) = name
         /\ Slice(entry, at + 4 + Len(name), Len(content)) = content

\* C26: entries are stored, not compressed: the method field of every local
\* entry and of every central record is 0, and every local entry ends with
\* the bytes of the name followed by exactly the UTF-8 bytes of the content
\* File.zip was given.
ClaimC26_StoredContent ==
  /\ \A i \in 1..Len(zipArray) :
       LET entry == zipArray[i]
           name == TextEncode(files[i].name)
           content == TextEncode(files[i].content)
       IN /\ LE16(entry, 8) = 0
          /\ Len(entry) >= 10 + Len(name) + Len(content)
          /\ Slice(entry, Len(entry) - Len(content), Len(content)) = content
          /\ Slice(entry, Len(entry) - Len(content) - Len(name), Len(name)) = name
  /\ \A i \in 1..Len(centralDirectoryArray) :
       LE16(centralDirectoryArray[i], 10) = 0
  /\ pc = "returned" =>
       \A i \in 1..Len(files) :
         LET content == TextEncode(files[i].content)
         IN Slice(zipBlob, LocalEntryOffset(i + 1) - Len(content), Len(content))
              = content

\* C26 happens: File.zip has returned an archive with an entry whose content
\* takes more bytes than it has characters
WitnessC26_StoredContent ==
  /\ pc = "returned"
  /\ Len(zipArray) = Len(files)
  /\ \E i \in 1..Len(files) :
       Len(TextEncode(files[i].content)) > Len(files[i].content)

\* C27: in the assembled buffer the records lie one after the other without
\* gap or overlap: the local entries in the order of the list from byte 0,
\* the central records in the same order right behind them, then the end
\* record; the length of the buffer is the sum of the lengths of the records.
ClaimC27_ContiguousRecords ==
  pc \in {"zipBlob", "returned"} =>
    LET localBytes == SumLen(zipArray)
        centralBytes == SumLen(centralDirectoryArray)
    IN /\ Len(zipFile) = localBytes + centralBytes + Len(endOfCentralDirectory)
       /\ \A i \in 1..Len(zipArray) :
            Slice(zipFile, SumLen(SubSeq(zipArray, 1, i - 1)), Len(zipArray[i]))
              = zipArray[i]
       /\ \A i \in 1..Len(centralDirectoryArray) :
            Slice(zipFile,
                  localBytes + SumLen(SubSeq(centralDirectoryArray, 1, i - 1)),
                  Len(centralDirectoryArray[i]))
              = centralDirectoryArray[i]
       /\ Slice(zipFile, localBytes + centralBytes, Len(endOfCentralDirectory))
            = endOfCentralDirectory
       /\ pc = "returned" => zipBlob = zipFile

\* C27 happens: File.zip has returned the buffer of two entries that differ
WitnessC27_ContiguousRecords ==
  /\ pc = "returned"
  /\ Len(files) = 2
  /\ Len(zipArray) = 2
  /\ zipArray[1] # zipArray[2]
  /\ centralDirectoryArray[1] # centralDirectoryArray[2]

\* C28: for every name, also one with characters of several UTF-8 bytes,
\* File.zip does not fail, the name length field of the local entry and of
\* the central record is the number of UTF-8 bytes of the name, and the
\* name is written in full.  (Stated for the pages that bind `offset` and
\* for names of less than 256 bytes.)
ClaimC28_Utf8NameLength ==
  (/\ globalOffset.declared
   /\ ZipFinished
   /\ \A i \in 1..Len(files) : Len(TextEncode(files[i].name)) < 256) =>
    /\ pc = "returned"
    /\ \A i \in 1..Len(files) :
         LET name == TextEncode(files[i].name)
         IN /\ Field16Is(zipArray[i], 26, 30, Len(name))
            /\ Field16Is(centralDirectoryArray[i], 28, 36, Len(name))
            /\ Slice(zipArray[i],
                     Len(zipArray[i]) - Len(TextEncode(files[i].content)) - Len(name),
                     Len(name)) = name
            /\ Slice(centralDirectoryArray[i],
                     Len(centralDirectoryArray[i]) - Len(name), Len(name)) = name

\* C29: the promise of File.unzip settles once for every input: a failed
\* read rejects it with 'Error reading zip file.', a failed load with
\* 'Failed to unzip the file: ...', and when the extraction of a single
\* entry has failed it is settled and not resolved as a success.  (The last
\* part is stated for archives of entries with unique, non-empty ASCII names.)
ClaimC29_SettlesOnEveryOutcome ==
  /\ promise = "rejected" =>
       rejectReason.message[1] \in
         {"Error reading zip file.", "Failed to unzip the file: "}
  /\ (/\ PlainNames
      /\ UniqueNames
      /\ \E i \in 1..Len(loadedFiles) :
           /\ i \notin pendingEntries
           /\ ~ExtractionSucceeds(loadedFiles[i])) =>
       promise = "rejected"

\* the last setLocal of key gave an expiry time, and at time t it has passed
StoredExpired(key, t) ==
  /\ stored[key].set
  /\ stored[key].expiresIn.given
  /\ t > stored[key].at + stored[key].expiresIn.ms

ValueIn(ls, key) == GetItem(ls, key).value

\* the entries of data have the keys ks
DataKeys(data) == {data[i].key : i \in 1..Len(data)}

\* C24: syncLocalStorage(data, merge) completes; without merge the storage
\* then has exactly the keys of data, each with the value data gives it;
\* with merge every key of data has the value data gives it and every other
\* key is as it was.
ClaimC24_SyncLocalStorage ==
  lastCall.op = "syncLocalStorage" =>
    /\ lastCall.thrown = "none"
    /\ \A i \in 1..Len(lastCall.data) :
         /\ HasKey(lastCall.after, lastCall.data[i].key)
         /\ ValueIn(lastCall.after, lastCall.data[i].key) = lastCall.data[i].value
    /\ IF lastCall.merge
       THEN /\ KeysOf(lastCall.after) =
                 KeysOf(lastCall.before) \cup DataKeys(lastCall.data)
            /\ \A key \in KeysOf(lastCall.before) \ DataKeys(lastCall.data) :
                 GetItem(lastCall.after, key) = GetItem(lastCall.before, key)
       ELSE KeysOf(lastCall.after) = DataKeys(lastCall.data)

\* C30: batchProcessLocalStorage(callback) invokes callback exactly once for
\* every key the storage held when it was called, also when getLocal removes
\* expired items while the loop runs.
ClaimC30_BatchVisitsEveryKey ==
  lastCall.op = "batchProcessLocalStorage" =>
    \A key \in lastCall.keys :
      Cardinality({i \in 1..Len(lastCall.calls) : lastCall.calls[i].key = key}) = 1
====
